---- MODULE Spec2Model ----
(***************************************************************************)
(* Model of the chat clients of mini-chatbot-ui.                           *)
(*                                                                         *)
(* Part 1: formatText, the markdown-to-HTML rewriter that all three App    *)
(* variants carry (src/src/App.jsx, the multi-chat variant;                *)
(* src/unnamed/part_000, the simple variant; src/unnamed/part_001, the     *)
(* upload variant).                                                        *)
(*                                                                         *)
(* A JavaScript string is a sequence of tokens.  A token is either one     *)
(* character of the input alphabet or one fragment of a replacement        *)
(* template, kept whole and spelled as in the source.  Keeping a fragment  *)
(* whole loses nothing: passes 1-2 run before any fragment exists, passes  *)
(* 3-5 are anchored with ^ and every fragment that can stand at a line     *)
(* start begins with "<", and no fragment holds a newline for pass 6.      *)
(***************************************************************************)
EXTENDS Integers, Sequences, FiniteSets, TLC

\* formatText: its argument, the App that runs it, its return value, and
\* whether it has been called.
VARIABLES text, variant, result, pc

\* validateFile: its argument and its return value.
VARIABLES file, verdict

\* The running App: which of the three variants it is, its React state, the
\* value of the file picker, the backend requests in flight, and the clock
\* that Date.now() reads.
VARIABLES app, messages, input, loading, requests
VARIABLES uploadedFile, uploadError, isDocumentUploaded, fileInput
VARIABLES chatHistory, currentChatId, sessionMap, clock

formatVars == <<text, variant, result, pc>>

validateVars == <<file, verdict>>

uploadVars == <<uploadedFile, uploadError, isDocumentUploaded, fileInput>>

chatVars == <<chatHistory, currentChatId, sessionMap, clock>>

appVars == <<app, messages, input, loading, requests, uploadVars, chatVars>>

vars == <<formatVars, validateVars, appVars>>

\* Longest input text drawn for formatText.
MaxLen == 5

\* The input alphabet: every character some pass of formatText treats
\* specially, and "<" for the characters no pass looks at (it is also the
\* character an escaping formatter would have to rewrite).
Alphabet == {"*", "#", "-", "1", ".", " ", "\n", "<"}

\* \d, \s and the line terminators (what "." refuses and ^/$ anchor on under
\* the m flag), restricted to the alphabet.
Digit == {"1"}
WhiteSpace == {" ", "\n"}
LineTerminator == {"\n"}

Variants == {"multi", "simple", "upload"}

Min(S) == CHOOSE x \in S : \A y \in S : x <= y

\* JavaScript values that reach formatText.
Null == [kind |-> "null", chars |-> <<>>]
Undefined == [kind |-> "undefined", chars |-> <<>>]
Str(s) == [kind |-> "string", chars |-> s]
TypeError == [kind |-> "TypeError", chars |-> <<>>]

\* !text is false exactly for a non-empty string (among null, undefined, string).
Truthy(v) == v.kind = "string" /\ v.chars # <<>>

(***************************************************************************)
(* Pass 1: text.replace(/\*\*(.*?)\*\*/g, '<strong>$1</strong>')           *)
(***************************************************************************)
\* A global replace scans from index i for the leftmost index where the
\* regular expression matches, copies what lies before it, writes the
\* template for the match and scans on from the end of the match; what is
\* left when no match remains is copied.
\*
\* Where the match that starts at i closes: the index of the first "*" of the
\* nearest closing "**" reachable over non-terminators, 0 when none.
BoldClose(s, i) ==
  IF i + 1 <= Len(s) /\ s[i] = "*" /\ s[i + 1] = "*"
  THEN LET C == {j \in (i + 2)..(Len(s) - 1) :
                   /\ s[j] = "*" /\ s[j + 1] = "*"
                   /\ \A k \in (i + 2)..(j - 1) : s[k] \notin LineTerminator}
       IN IF C = {} THEN 0 ELSE Min(C)
  ELSE 0

RECURSIVE BoldFrom(_, _)
BoldFrom(s, i) ==
  LET M == {k \in i..Len(s) : BoldClose(s, k) # 0}
  IN IF M = {} THEN SubSeq(s, i, Len(s))
     ELSE LET k == Min(M)
              j == BoldClose(s, k)
          IN SubSeq(s, i, k - 1)
             \o <<"<strong>">> \o SubSeq(s, k + 2, j - 1) \o <<"</strong>">>
             \o BoldFrom(s, j + 2)

BoldPass(s) == BoldFrom(s, 1)

(***************************************************************************)
(* Pass 2: text.replace(/\*(.*?)\*/g, '<em>$1</em>')                       *)
(***************************************************************************)
ItalicClose(s, i) ==
  IF s[i] = "*"
  THEN LET C == {j \in (i + 1)..Len(s) :
                   /\ s[j] = "*"
                   /\ \A k \in (i + 1)..(j - 1) : s[k] \notin LineTerminator}
       IN IF C = {} THEN 0 ELSE Min(C)
  ELSE 0

RECURSIVE ItalicFrom(_, _)
ItalicFrom(s, i) ==
  LET M == {k \in i..Len(s) : ItalicClose(s, k) # 0}
  IN IF M = {} THEN SubSeq(s, i, Len(s))
     ELSE LET k == Min(M)
              j == ItalicClose(s, k)
          IN SubSeq(s, i, k - 1)
             \o <<"<em>">> \o SubSeq(s, k + 1, j - 1) \o <<"</em>">>
             \o ItalicFrom(s, j + 1)

ItalicPass(s) == ItalicFrom(s, 1)

(***************************************************************************)
(* Passes 3-5 share one shape under the g and m flags:                     *)
(*     /^ marker \s+ (.*$)/gm                                              *)
(* where marker is \d+\. or [\*\-] or ### or ## or #.                      *)
(***************************************************************************)
\* ^ under the m flag: at the start of the text or right after a terminator.
AtLineStart(s, i) == i = 1 \/ s[i - 1] \in LineTerminator

\* The index of the last element of the longest run of members of S that
\* starts at i; i - 1 when s[i] is not in S (greedy + or *).
RunEnd(s, i, S) ==
  LET Stop == {j \in i..Len(s) : s[j] \notin S}
  IN IF Stop = {} THEN Len(s) ELSE Min(Stop) - 1

\* A literal marker lit at i: the index of its last character, 0 when absent.
LiteralEnd(s, i, lit) ==
  IF i + Len(lit) - 1 <= Len(s) /\ SubSeq(s, i, i + Len(lit) - 1) = lit
  THEN i + Len(lit) - 1 ELSE 0

\* \d+\. at i: the index of the dot, 0 when absent.  The digit run is taken
\* whole: a shorter run would leave a digit where the dot must stand.
NumberEnd(s, i) ==
  LET d == RunEnd(s, i, Digit)
  IN IF d >= i /\ d + 1 <= Len(s) /\ s[d + 1] = "." THEN d + 1 ELSE 0

\* The index of the last element of the longest run of non-terminators that
\* starts at i; i - 1 when there is none (greedy .*).  The position after it
\* is the end of the text or a terminator, which is where $ holds under m.
DotRunEnd(s, i) ==
  LET Stop == {j \in i..Len(s) : s[j] \in LineTerminator}
  IN IF Stop = {} THEN Len(s) ELSE Min(Stop) - 1

\* LineMatch with \s* for \s+: the marker needs no white space after it.
LineMatchOptionalSpace(s, i, m) ==
  IF ~AtLineStart(s, i) \/ m = 0 THEN [ok |-> FALSE, ws |-> 0, eol |-> 0]
  ELSE LET w == RunEnd(s, m + 1, WhiteSpace)
       IN [ok |-> TRUE, ws |-> w, eol |-> DotRunEnd(s, w + 1)]

\* marker \s+ (.*$) with the marker ending at m (0: no marker at i).  \s+
\* takes the whole run of white space after the marker, newlines included,
\* and .* then runs to the end of the line it has arrived on, where $ holds;
\* so the first try of the greedy quantifiers succeeds whenever at least one
\* white-space character follows the marker, and no other try is made.
\* ws: the last index of \s+; eol: the last index of (.*$).
LineMatch(s, i, m) ==
  IF ~AtLineStart(s, i) \/ m = 0 THEN [ok |-> FALSE, ws |-> 0, eol |-> 0]
  ELSE LET w == RunEnd(s, m + 1, WhiteSpace)
       IN IF w < m + 1 THEN [ok |-> FALSE, ws |-> 0, eol |-> 0]
          ELSE [ok |-> TRUE, ws |-> w, eol |-> DotRunEnd(s, w + 1)]

(***************************************************************************)
(* The replacement templates, one fragment per tag.  The multi-chat        *)
(* variant writes inline styles, the other two write class names.          *)
(***************************************************************************)
ListItemOpen(v) ==
  IF v = "multi" THEN "<div style=\"margin: 8px 0; padding-left: 12px;\">"
  ELSE "<div class=\"list-item\">"

ListNumberOpen(v) ==
  IF v = "multi"
  THEN "<span style=\"font-weight: 600; color: #007bff; margin-right: 8px;\">"
  ELSE "<span class=\"list-number\">"

BulletItemOpen(v) ==
  IF v = "multi" THEN "<div style=\"margin: 6px 0; padding-left: 12px;\">"
  ELSE "<div class=\"bullet-item\">"

\* The bullet character U+2022 of the template, named by its code point.
BulletGlyph == "U+2022"

H3Open(v) ==
  IF v = "multi"
  THEN "<h3 style=\"font-size: 18px; font-weight: 600; color: #34495e; margin: 12px 0 6px 0; line-height: 1.3;\">"
  ELSE "<h3 class=\"chat-h3\">"

H2Open(v) ==
  IF v = "multi"
  THEN "<h2 style=\"font-size: 20px; font-weight: 600; color: #2c3e50; margin: 16px 0 8px 0; line-height: 1.3;\">"
  ELSE "<h2 class=\"chat-h2\">"

(***************************************************************************)
(* Pass 3: text.replace(/^(\d+\.\s+)(.*$)/gm,                              *)
(*                      '<div ...><span ...>$1</span>$2</div>')            *)
(***************************************************************************)
\* The same with the white space outside the first group,
\* /^(\d+\.)\s+(.*$)/gm: the label loses its blanks.
RECURSIVE OrderedFromBareLabel(_, _, _)
OrderedFromBareLabel(v, s, i) ==
  LET M == {k \in i..Len(s) : LineMatch(s, k, NumberEnd(s, k)).ok}
  IN IF M = {} THEN SubSeq(s, i, Len(s))
     ELSE LET k == Min(M)
              m == LineMatch(s, k, NumberEnd(s, k))
          IN SubSeq(s, i, k - 1)
             \o <<ListItemOpen(v), ListNumberOpen(v)>>
             \o SubSeq(s, k, NumberEnd(s, k))
             \o <<"</span>">> \o SubSeq(s, m.ws + 1, m.eol) \o <<"</div>">>
             \o OrderedFromBareLabel(v, s, m.eol + 1)

RECURSIVE OrderedFrom(_, _, _)
OrderedFrom(v, s, i) ==
  LET M == {k \in i..Len(s) : LineMatch(s, k, NumberEnd(s, k)).ok}
  IN IF M = {} THEN SubSeq(s, i, Len(s))
     ELSE LET k == Min(M)
              m == LineMatch(s, k, NumberEnd(s, k))
          IN SubSeq(s, i, k - 1)
             \o <<ListItemOpen(v), ListNumberOpen(v)>> \o SubSeq(s, k, m.ws)
             \o <<"</span>">> \o SubSeq(s, m.ws + 1, m.eol) \o <<"</div>">>
             \o OrderedFrom(v, s, m.eol + 1)

OrderedListPass(v, s) == OrderedFrom(v, s, 1)

(***************************************************************************)
(* Pass 4: text.replace(/^[\*\-]\s+(.*$)/gm, '<div ...>U+2022 $1</div>')   *)
(***************************************************************************)
\* The same with /^\-\s+(.*$)/gm: only the dash is a bullet marker.
BulletEndDashOnly(s, i) == IF s[i] = "-" THEN i ELSE 0

BulletEnd(s, i) == IF s[i] \in {"*", "-"} THEN i ELSE 0

RECURSIVE BulletFrom(_, _, _)
BulletFrom(v, s, i) ==
  LET M == {k \in i..Len(s) : LineMatch(s, k, BulletEnd(s, k)).ok}
  IN IF M = {} THEN SubSeq(s, i, Len(s))
     ELSE LET k == Min(M)
              m == LineMatch(s, k, BulletEnd(s, k))
          IN SubSeq(s, i, k - 1)
             \o <<BulletItemOpen(v), BulletGlyph, " ">>
             \o SubSeq(s, m.ws + 1, m.eol) \o <<"</div>">>
             \o BulletFrom(v, s, m.eol + 1)

BulletPass(v, s) == BulletFrom(v, s, 1)

(***************************************************************************)
(* Pass 5: text.replace(/^###\s+(.*$)/gm, '<h3 ...>$1</h3>') and then      *)
(*         text.replace(/^##\s+(.*$)/gm, '<h2 ...>$1</h2>')  (multi,       *)
(*         upload) or text.replace(/^#\s+(.*$)/gm, ...)  (simple).         *)
(***************************************************************************)
RECURSIVE HeadingFrom(_, _, _, _, _)
HeadingFrom(s, i, marker, open, close) ==
  LET M == {k \in i..Len(s) : LineMatch(s, k, LiteralEnd(s, k, marker)).ok}
  IN IF M = {} THEN SubSeq(s, i, Len(s))
     ELSE LET k == Min(M)
              m == LineMatch(s, k, LiteralEnd(s, k, marker))
          IN SubSeq(s, i, k - 1)
             \o <<open>> \o SubSeq(s, m.ws + 1, m.eol) \o <<close>>
             \o HeadingFrom(s, m.eol + 1, marker, open, close)

H3Marker == <<"#", "#", "#">>

\* The marker of the second heading regex.
H2Marker(v) == IF v = "simple" THEN <<"#">> ELSE <<"#", "#">>

\* The same with the level-2 template pasted into the ### rule.
H3PassAsH2(v, s) == HeadingFrom(s, 1, H3Marker, H2Open(v), "</h2>")

H3Pass(v, s) == HeadingFrom(s, 1, H3Marker, H3Open(v), "</h3>")

H2Pass(v, s) == HeadingFrom(s, 1, H2Marker(v), H2Open(v), "</h2>")

(***************************************************************************)
(* Pass 6: text.replace(/\n/g, '<br>')                                     *)
(***************************************************************************)
BreakPass(s) == [i \in 1..Len(s) |-> IF s[i] = "\n" THEN "<br>" ELSE s[i]]

(***************************************************************************)
(* formatText: the guard, then the six passes, each on the result of the   *)
(* one before.  A call of replace on null or undefined would throw.        *)
(***************************************************************************)
\* The same with passes 1 and 2 in the other order.
RewriteItalicFirst(v, s) ==
  BreakPass(H2Pass(v, H3Pass(v, BulletPass(v,
    OrderedListPass(v, BoldPass(ItalicPass(s)))))))

Rewrite(v, s) ==
  BreakPass(H2Pass(v, H3Pass(v, BulletPass(v,
    OrderedListPass(v, ItalicPass(BoldPass(s)))))))

\* The same without the guard: replace is called on whatever comes in.
formatTextUnguarded(v, t) ==
  IF t.kind # "string" THEN TypeError
  ELSE Str(Rewrite(v, t.chars))

formatText(v, t) ==
  IF ~Truthy(t) THEN t
  ELSE Str(Rewrite(v, t.chars))

(***************************************************************************)
(* Part 2: validateFile of the upload variant (src/unnamed/part_001).      *)
(*                                                                         *)
(* A File is [name, type, size]: the name a sequence of characters, the    *)
(* type a string, the size a number of bytes.  A message is the template   *)
(* it was built from together with the values interpolated into it.        *)
(***************************************************************************)
MAX_FILE_SIZE == 10 * 1024 * 1024

ALLOWED_EXTENSIONS ==
  {<<".", "p", "d", "f">>, <<".", "d", "o", "c">>, <<".", "d", "o", "c", "x">>}

ALLOWED_MIME_TYPES ==
  {"application/pdf", "application/msword",
   "application/vnd.openxmlformats-officedocument.wordprocessingml.document"}

\* String.prototype.toLowerCase on the characters file names are drawn from.
LowerChar(c) ==
  CASE c = "A" -> "a"
    [] c = "P" -> "p"
    [] c = "D" -> "d"
    [] c = "F" -> "f"
    [] OTHER -> c

toLowerCase(s) == [i \in 1..Len(s) |-> LowerChar(s[i])]

endsWith(s, suffix) ==
  Len(suffix) <= Len(s) /\ SubSeq(s, Len(s) - Len(suffix) + 1, Len(s)) = suffix

\* Number.prototype.toFixed(places) of num / den for num >= 0: the decimal
\* with that many places nearest to the quotient, the larger one on a tie,
\* as the digits before the point and the digits after it.
toFixed(num, den, places) ==
  LET scale == 10 ^ places
      whole == num \div den
      rest == num % den
      n == whole * scale + (2 * rest * scale + den) \div (2 * den)
  IN [units |-> n \div scale, frac |-> n % scale, places |-> places]

NoNumber == [units |-> 0, frac |-> 0, places |-> 0]

\* The values validateFile returns and uploadError holds: null, "", or one
\* of the three messages.
Message(template, name, type, sizeMB, maxMB) ==
  [template |-> template, name |-> name, type |-> type,
   fileSizeMB |-> sizeMB, maxSizeMB |-> maxMB]

NullMessage == Message("null", <<>>, "", NoNumber, NoNumber)

EmptyMessage == Message("", <<>>, "", NoNumber, NoNumber)

\* `Only PDF and DOC/DOCX files are allowed. You selected: ${file.name}`
BadExtension(f) == Message("extension", f.name, "", NoNumber, NoNumber)

\* `Invalid file type detected. Expected: PDF or DOC/DOCX, Got: ${file.type}`
BadMimeType(f) == Message("mime", <<>>, f.type, NoNumber, NoNumber)

\* `File size (${fileSizeMB}MB) exceeds the maximum limit of ${maxSizeMB}MB`
TooLargeTwoPlaces(f) ==
  Message("size", <<>>, "",
          toFixed(f.size, 1024 * 1024, 2), toFixed(MAX_FILE_SIZE, 1024 * 1024, 2))

TooLarge(f) ==
  Message("size", <<>>, "",
          toFixed(f.size, 1024 * 1024, 2), toFixed(MAX_FILE_SIZE, 1024 * 1024, 0))

hasValidExtension(f) ==
  \E ext \in ALLOWED_EXTENSIONS : endsWith(toLowerCase(f.name), ext)

\* validateFile with the size check before the MIME-type check.
validateFileSizeFirst(f) ==
  IF ~hasValidExtension(f) THEN BadExtension(f)
  ELSE IF f.size > MAX_FILE_SIZE THEN TooLarge(f)
  ELSE IF f.type # "" /\ f.type \notin ALLOWED_MIME_TYPES THEN BadMimeType(f)
  ELSE NullMessage

\* validateFile with >= for > in the size check.
validateFileAtLimit(f) ==
  IF ~hasValidExtension(f) THEN BadExtension(f)
  ELSE IF f.type # "" /\ f.type \notin ALLOWED_MIME_TYPES THEN BadMimeType(f)
  ELSE IF f.size >= MAX_FILE_SIZE THEN TooLarge(f)
  ELSE NullMessage

validateFile(f) ==
  IF ~hasValidExtension(f) THEN BadExtension(f)
  ELSE IF f.type # "" /\ f.type \notin ALLOWED_MIME_TYPES THEN BadMimeType(f)
  ELSE IF f.size > MAX_FILE_SIZE THEN TooLarge(f)
  ELSE NullMessage

\* The files validateFile is tried on.
FileNames ==
  {<<"a", ".", "p", "d", "f">>, <<"A", ".", "P", "D", "F">>,
   <<"a", ".", "d", "o", "c">>, <<"a", ".", "d", "o", "c", "x">>,
   <<"a", ".", "t", "x", "t">>, <<"p", "d", "f">>,
   <<"a", ".", "p", "d", "f", ".", "t", "x", "t">>}

FileTypes == ALLOWED_MIME_TYPES \cup {"", "text/plain"}

\* Sizes around the limit, one whose megabytes round up (10.005...), one
\* that is a tie between two hundredths (10.125), and 11 MiB.
FileSizes ==
  {0, 100, MAX_FILE_SIZE - 1, MAX_FILE_SIZE, MAX_FILE_SIZE + 1,
   MAX_FILE_SIZE + 5243, MAX_FILE_SIZE + 131072, 11 * 1024 * 1024}

Files == [name : FileNames, type : FileTypes, size : FileSizes]

NoFile == [name |-> <<>>, type |-> "", size |-> 0]

\* Nothing is being validated.
ValidatorIdle == file = NoFile /\ verdict = NullMessage

\* useState(null) of currentChatId; chat ids are the clock readings 1, 2, ...
NoChat == 0

\* sessionMap[id] of a chat without a session (null), and of no chat at all.
NoSession == "null"

NoSessionMap == [c \in {} |-> NoSession]

\* No App is running.
AppIdle ==
  /\ app = "none"
  /\ messages = <<>> /\ input = <<>> /\ loading = FALSE /\ requests = <<>>
  /\ uploadedFile = NoFile /\ uploadError = EmptyMessage
  /\ isDocumentUploaded = FALSE /\ fileInput = NoFile
  /\ chatHistory = <<>> /\ currentChatId = NoChat
  /\ sessionMap = NoSessionMap /\ clock = 0

(***************************************************************************)
(* The formatter as a state machine: an argument is drawn, and one of the  *)
(* three Apps formats it.                                                  *)
(***************************************************************************)
\* The strings of at most n characters.
StringsUpTo(n) == UNION {[1..k -> Alphabet] : k \in 0..n}

IsArgument(t) ==
  \/ t \in {Null, Undefined}
  \/ \E s \in StringsUpTo(MaxLen) : t = Str(s)

Init ==
  /\ IsArgument(text)
  /\ variant = "none"
  /\ result = Undefined
  /\ pc = "call"
  /\ ValidatorIdle
  /\ AppIdle

Format(v) ==
  /\ pc = "call"
  /\ variant' = v
  /\ result' = formatText(v, text)
  /\ pc' = "done"
  /\ UNCHANGED <<text, validateVars, appVars>>

MultiChatFormat == Format("multi")

SimpleFormat == Format("simple")

UploadFormat == Format("upload")

Next ==
  \/ MultiChatFormat
  \/ SimpleFormat
  \/ UploadFormat

Spec == Init /\ [][Next]_vars

(***************************************************************************)
(* Vocabulary of the properties.                                           *)
(***************************************************************************)
Called == pc = "done" /\ text.kind = "string"

SingleLine(s) == \A i \in 1..Len(s) : s[i] \notin LineTerminator

NoAsterisk(s) == \A i \in 1..Len(s) : s[i] # "*"

Holds(s, tok) == \E i \in 1..Len(s) : s[i] = tok

Count(s, tok) == Cardinality({i \in 1..Len(s) : s[i] = tok})

From(s, i) == SubSeq(s, i, Len(s))

\* White space that can stand inside a line.
Blank == WhiteSpace \ LineTerminator

\* What passes 1-2 leave of a piece of text.
Inline(s) == ItalicPass(BoldPass(s))

\* s is one line: a marker that ends at index m (0: no marker), then at least
\* one blank.  Its label is the marker with all the blanks that follow it, its
\* body is the rest of the line.
MarkedLine(s, m) == m > 0 /\ SingleLine(s) /\ RunEnd(s, m + 1, Blank) >= m + 1

Label(s, m) == SubSeq(s, 1, RunEnd(s, m + 1, Blank))

Body(s, m) == From(s, RunEnd(s, m + 1, Blank) + 1)

\* The number of "#" that s begins with.
Hashes(s) == RunEnd(s, 1, {"#"})

(***************************************************************************)
(* C1..C10: formatText                                                     *)
(***************************************************************************)

\* C1: in all three variants formatText returns a null, undefined or empty
\* argument unchanged: null stays null, undefined stays undefined, "" stays
\* "", and nothing is thrown.
C1_AbsentOrEmptyUnchanged ==
  pc = "done" /\ (text = Null \/ text = Undefined \/ text = Str(<<>>))
    => result = text

C1_Witness == pc = "done" /\ text = Null /\ result = Null /\ variant = "simple"

\* C2: for every non-empty single-line x without an asterisk,
\* formatText("**x**") is exactly <strong>x</strong>, with no <em> tag, and
\* formatText("*x*") is exactly <em>x</em>.
C2_BoldBeforeItalic ==
  Called =>
    LET s == text.chars
        n == Len(s)
    IN /\ ( /\ n >= 5 /\ s[1] = "*" /\ s[2] = "*" /\ s[n - 1] = "*" /\ s[n] = "*"
            /\ SingleLine(s) /\ NoAsterisk(SubSeq(s, 3, n - 2)) )
          => /\ result = Str(<<"<strong>">> \o SubSeq(s, 3, n - 2) \o <<"</strong>">>)
             /\ ~Holds(result.chars, "<em>")
       /\ ( /\ n >= 3 /\ s[1] = "*" /\ s[n] = "*"
            /\ SingleLine(s) /\ NoAsterisk(SubSeq(s, 2, n - 1)) )
          => result = Str(<<"<em>">> \o SubSeq(s, 2, n - 1) \o <<"</em>">>)

C2_Witness ==
  /\ pc = "done" /\ text = Str(<<"*", "*", "<", "*", "*">>)
  /\ result = Str(<<"<strong>", "<", "</strong>">>)

\* C3: an unbalanced delimiter passes through literally.  For every one-line
\* text whose only asterisks are one opening "**" or one "*" (that does not
\* stand as a bullet marker), the output holds the same asterisks and no
\* <strong> or <em> tag.
Unbalanced(s) ==
  /\ SingleLine(s)
  /\ \/ Count(s, "*") = 1 /\ ~(s[1] = "*" /\ MarkedLine(s, 1))
     \/ Count(s, "*") = 2 /\ \E i \in 1..(Len(s) - 1) : s[i] = "*" /\ s[i + 1] = "*"

C3_UnbalancedPassesThrough ==
  Called /\ text.chars # <<>> /\ Unbalanced(text.chars)
    => /\ Count(result.chars, "*") = Count(text.chars, "*")
       /\ \A tag \in {"<strong>", "</strong>", "<em>", "</em>"} :
            ~Holds(result.chars, tag)

\* C4: in each of the three variants a line of "#", blanks and a title and a
\* line of "##", blanks and the same title both become the level-2 heading
\* around the title.
C4_OneAndTwoHashesAreH2 ==
  Called /\ text.chars # <<>> /\ Hashes(text.chars) \in {1, 2}
         /\ MarkedLine(text.chars, Hashes(text.chars))
    => result = Str(<<H2Open(variant)>>
                    \o Inline(Body(text.chars, Hashes(text.chars)))
                    \o <<"</h2>">>)

\* C5: in all three variants a line of exactly "###", blanks and a rest is
\* the level-3 heading around the rest (as passes 1-2 left it) and holds no
\* level-2 heading; a line that begins with four or more "#" holds no heading.
C5_ThreeHashesAreH3 ==
  Called /\ text.chars # <<>> /\ text.chars[1] = "#" /\ SingleLine(text.chars) =>
    LET s == text.chars
    IN /\ Hashes(s) = 3 /\ MarkedLine(s, 3)
          => /\ result = Str(<<H3Open(variant)>> \o Inline(Body(s, 3)) \o <<"</h3>">>)
             /\ ~Holds(result.chars, H2Open(variant))
       /\ Hashes(s) >= 4
          => /\ ~Holds(result.chars, H2Open(variant))
             /\ ~Holds(result.chars, H3Open(variant))
             /\ result = Str(Inline(s))

C5_Witness ==
  /\ pc = "done" /\ text = Str(<<"#", "#", "#", " ", "<">>)
  /\ result = Str(<<H3Open(variant), "<", "</h3>">>)

\* C6: passes 3-5 work line by line: for all one-line texts l1 and l2,
\* formatText(l1 + "\n" + l2) = formatText(l1) + "<br>" + formatText(l2).
C6_LineByLine ==
  Called /\ Count(text.chars, "\n") = 1 =>
    LET s == text.chars
        k == CHOOSE i \in 1..Len(s) : s[i] = "\n"
    IN result.chars = formatText(variant, Str(SubSeq(s, 1, k - 1))).chars
                      \o <<"<br>">>
                      \o formatText(variant, Str(From(s, k + 1))).chars

\* C7: a line of digits, a dot, blanks and a body becomes one list-item
\* container: the label element holds the digits, the dot and the blanks, and
\* the body is the rest of the line (as passes 1-2 left it).
C7_OrderedListItem ==
  Called /\ text.chars # <<>> /\ text.chars[1] \in Digit
         /\ MarkedLine(text.chars, NumberEnd(text.chars, 1))
    => LET s == text.chars
           m == NumberEnd(s, 1)
       IN result = Str(<<ListItemOpen(variant), ListNumberOpen(variant)>>
                       \o Label(s, m) \o <<"</span>">>
                       \o Inline(Body(s, m)) \o <<"</div>">>)

C7_Witness ==
  /\ pc = "done" /\ text = Str(<<"1", ".", " ", "<">>)
  /\ result = Str(<<ListItemOpen(variant), ListNumberOpen(variant),
                    "1", ".", " ", "</span>", "<", "</div>">>)

\* C8: for every body without an asterisk, the line "-", blanks, body and the
\* line "*", blanks, body both become the same bullet-item container: the
\* bullet glyph, a space, and exactly the body.
C8_BulletItem ==
  Called /\ text.chars # <<>> /\ text.chars[1] \in {"-", "*"}
         /\ MarkedLine(text.chars, 1)
         /\ NoAsterisk(Body(text.chars, 1))
    => result = Str(<<BulletItemOpen(variant), BulletGlyph, " ">>
                    \o Body(text.chars, 1) \o <<"</div>">>)

C8_Witness ==
  /\ pc = "done" /\ text = Str(<<"*", " ", "<">>)
  /\ result = Str(<<BulletItemOpen(variant), BulletGlyph, " ", "<", "</div>">>)

\* A line of s starts at i with a recognised token: a list marker or one to
\* three "#", followed by a blank.
MarkerAt(s, i) ==
  \/ NumberEnd(s, i) > 0 /\ RunEnd(s, NumberEnd(s, i) + 1, Blank) > NumberEnd(s, i)
  \/ s[i] \in {"*", "-"} /\ RunEnd(s, i + 1, Blank) > i
  \/ \E h \in 1..3 : /\ RunEnd(s, i, {"#"}) = i + h - 1
                     /\ RunEnd(s, i + h, Blank) >= i + h

\* No line of s holds a recognised markdown token.
Plain(s) ==
  /\ NoAsterisk(s)
  /\ \A i \in 1..Len(s) : AtLineStart(s, i) => ~MarkerAt(s, i)

\* C9: for every multi-line text whose lines hold no recognised markdown
\* token the output is the lines joined by one <br> per newline; and no
\* output holds a newline.
C9_BreaksOnly ==
  Called =>
    /\ ~Holds(result.chars, "\n")
    /\ Holds(text.chars, "\n") /\ Plain(text.chars)
         => result.chars = BreakPass(text.chars)

\* C10: formatText escapes nothing: a one-line text without an asterisk that
\* does not start with a list or heading marker comes out character for
\* character, "<" included.
C10_NoEscaping ==
  Called /\ SingleLine(text.chars) /\ Plain(text.chars) => result = text

C10_Witness ==
  /\ pc = "done" /\ text = Str(<<"<", "-", "1", ".", "<">>)
  /\ result = text

(***************************************************************************)
(* validateFile as a state machine: a file is drawn and validated.         *)
(***************************************************************************)
ValidateInit ==
  /\ file \in Files
  /\ verdict = NullMessage
  /\ pc = "validate"
  /\ text = Undefined /\ variant = "none" /\ result = Undefined
  /\ AppIdle

Validate ==
  /\ pc = "validate"
  /\ verdict' = validateFile(file)
  /\ pc' = "validated"
  /\ UNCHANGED <<text, variant, result, file, appVars>>

ValidateNext == Validate

ValidateSpec == ValidateInit /\ [][ValidateNext]_vars

Validated == pc = "validated"

ExtensionOk(f) ==
  LET n == toLowerCase(f.name)
      k == Len(n)
  IN \/ k >= 4 /\ SubSeq(n, k - 3, k) \in {<<".", "p", "d", "f">>, <<".", "d", "o", "c">>}
     \/ k >= 5 /\ SubSeq(n, k - 4, k) = <<".", "d", "o", "c", "x">>

MimeOk(f) == f.type = "" \/ f.type \in ALLOWED_MIME_TYPES

SizeOk(f) == f.size <= 10 * 1024 * 1024

\* C13: the checks run in the order extension, MIME type, size and the first
\* failing one decides: a bad extension gives the extension message whatever
\* the type and size; else a bad type gives the MIME message whatever the
\* size; else an oversize gives the size message; and there is no other
\* message.
C13_FirstFailingCheckWins ==
  Validated =>
    /\ ~ExtensionOk(file) => verdict.template = "extension"
    /\ ExtensionOk(file) /\ ~MimeOk(file) => verdict.template = "mime"
    /\ ExtensionOk(file) /\ MimeOk(file) /\ ~SizeOk(file)
         => verdict.template = "size"
    /\ verdict.template \in {"null", "extension", "mime", "size"}

\* A file that fails the MIME check and the size check.
C13_Witness ==
  /\ Validated /\ verdict.template = "mime"
  /\ file.size > MAX_FILE_SIZE /\ file.type = "text/plain"

\* C14: validateFile returns null exactly when the lower-cased name ends with
\* .pdf, .doc or .docx, the type is empty or allowed, and the size is at most
\* 10 MiB.
C14_AcceptedExactlyWhen ==
  Validated =>
    (verdict = NullMessage
       <=> ExtensionOk(file) /\ MimeOk(file) /\ SizeOk(file))

\* A.PDF, no MIME type, exactly 10 MiB: accepted.
C14_Witness ==
  /\ Validated /\ verdict = NullMessage
  /\ file = [name |-> <<"A", ".", "P", "D", "F">>, type |-> "",
             size |-> 10 * 1024 * 1024]

\* bytes / 1,048,576 in hundredths, rounded to the nearest and up on a tie.
Hundredths(bytes) == (bytes * 25 + 131072) \div 262144

\* C15 as stated: an oversized file is rejected with a message that gives the
\* file size and the maximum size, both with two decimals.
C15_BothSizesTwoDecimals ==
  Validated /\ ExtensionOk(file) /\ MimeOk(file) /\ file.size > MAX_FILE_SIZE
    => /\ verdict.template = "size"
       /\ verdict.fileSizeMB.places = 2
       /\ verdict.fileSizeMB.units * 100 + verdict.fileSizeMB.frac
            = Hundredths(file.size)
       /\ verdict.maxSizeMB.places = 2
       /\ verdict.maxSizeMB.units * 100 + verdict.maxSizeMB.frac
            = Hundredths(MAX_FILE_SIZE)

\* C15 amended: the file size is given with two decimals, the maximum size
\* with none (toFixed(0)): "10", not "10.00".
C15_FileSizeTwoDecimalsMaxNone ==
  Validated /\ ExtensionOk(file) /\ MimeOk(file) /\ file.size > MAX_FILE_SIZE
    => /\ verdict.template = "size"
       /\ verdict.fileSizeMB.places = 2
       /\ verdict.fileSizeMB.units * 100 + verdict.fileSizeMB.frac
            = Hundredths(file.size)
       /\ verdict.maxSizeMB = [units |-> 10, frac |-> 0, places |-> 0]

\* 10 MiB + 128 KiB is 10.125 MB and is shown as 10.13 of 10.
C15_Witness ==
  /\ Validated /\ file.size = MAX_FILE_SIZE + 131072
  /\ verdict.template = "size"
  /\ verdict.fileSizeMB = [units |-> 10, frac |-> 13, places |-> 2]
  /\ verdict.maxSizeMB = [units |-> 10, frac |-> 0, places |-> 0]

(***************************************************************************)
(* Part 3: the three Apps as one state machine.                            *)
(*                                                                         *)
(* Each synchronous handler is one action: React applies its state updates *)
(* together, and the next handler runs in the render that follows.  The    *)
(* part of an async handler after its awaits is one more action (Settle),  *)
(* which still sees the state of the render in which the handler started:  *)
(* that state is kept in the request it belongs to.  A control that is     *)
(* rendered disabled gives its handler a guard.                            *)
(***************************************************************************)
MaxMessages == 4

\* The last reading of the clock at which a chat is made or a message is
\* sent in the multi-chat variant.
MaxClock == 4

\* String.prototype.trim: the blanks at the start go, then those at the end.
RECURSIVE TrimStart(_)
TrimStart(s) ==
  IF s = <<>> \/ Head(s) \notin WhiteSpace THEN s ELSE TrimStart(Tail(s))

RECURSIVE TrimEnd(_)
TrimEnd(s) ==
  IF s = <<>> \/ s[Len(s)] \notin WhiteSpace THEN s
  ELSE TrimEnd(SubSeq(s, 1, Len(s) - 1))

Trim(s) == TrimEnd(TrimStart(s))

\* a || b on JavaScript values
OrElse(a, b) == IF Truthy(a) THEN a ELSE b

Repeat(c, n) == [i \in 1..n |-> c]

\* What the user types: a blank, 30 characters with markup and blanks
\* around them, and 31 characters.
Inputs ==
  {<<" ">>,
   <<" ", "*", "a", "*">> \o Repeat("a", 25) \o <<" ">>,
   Repeat("a", 31)}

\* An answer of the backend, with markup.
Answer == Str(<<"*", "*", "b", "*", "*", "<">>)

Outcome(kind, answer, sessionId) ==
  [kind |-> kind, answer |-> answer, sessionId |-> sessionId]

\* How a query ends: a response with an answer and no session id, with an
\* answer and a session id, or with another session id and no answer; a
\* response with a non-OK status; or no response.
QueryOutcomes ==
  {Outcome("ok", Answer, ""), Outcome("ok", Answer, "s1"),
   Outcome("ok", Undefined, "s2"),
   Outcome("status", Undefined, ""), Outcome("network", Undefined, "")}

\* How an upload ends: a response with message and details, a response
\* without details, a response with a non-OK status, or no response.
UploadOutcomes == {"ok", "nodetails", "status", "network"}

\* The files the user picks: two that pass validateFile and one for each of
\* its three rejections.
AppFiles ==
  {[name |-> <<"a", ".", "p", "d", "f">>, type |-> "application/pdf", size |-> 100],
   [name |-> <<"A", ".", "P", "D", "F">>, type |-> "", size |-> MAX_FILE_SIZE],
   [name |-> <<"a", ".", "t", "x", "t">>, type |-> "text/plain", size |-> 100],
   [name |-> <<"a", ".", "d", "o", "c">>, type |-> "text/plain", size |-> 100],
   [name |-> <<"a", ".", "p", "d", "f">>, type |-> "application/pdf",
    size |-> MAX_FILE_SIZE + 1]}

\* A message of the list: { sender, text } and, on an upload, file.
NoAttachment == [name |-> <<>>, size |-> 0]

Msg(sender, msgText) ==
  [sender |-> sender, text |-> msgText, file |-> NoAttachment]

UploadingMsg(f) ==
  [sender |-> "user",
   text |-> Str(<<"U+1F4C4", " ", "Uploading document...">>),
   file |-> [name |-> f.name, size |-> f.size]]

NoAnswerText == Str(<<"No answer received from the system.">>)

\* err.message of the error a failed request is caught with
ErrMessage(what, kind) ==
  CASE kind = "status" -> <<what, " failed with status ", "500">>
    [] kind = "network" -> <<"Failed to fetch">>
    [] OTHER -> <<"Cannot read properties of undefined (reading 'filename')">>

QueryErrorText(kind) ==
  Str(<<"U+274C", " Error processing query: ">> \o ErrMessage("Query", kind))

SimpleErrorText == Str(<<"U+26A0", " Error fetching response">>)

UploadErrorText(kind) ==
  Str(<<"U+274C", " Failed to upload document: ">> \o ErrMessage("Upload", kind))

\* The success text of uploadDocument; the backend reports the name it got.
UploadedText(f) ==
  Str(<<"U+2705", " ", "Document processed", "\n", "\n",
        "*", "*", "Document Details:", "*", "*", "\n",
        "-", " ", "Filename: ">> \o f.name \o
      <<"\n", "-", " ", "Status: ", "processed", "\n", "\n",
        "You can now ask questions about this document!">>)

\* A request in flight, with what its handler's continuation still holds
\* from the render it started in.
Request(kind, chat, newMessages, session, question, f) ==
  [kind |-> kind, chat |-> chat, newMessages |-> newMessages,
   session |-> session, question |-> question, file |-> f]

Without(s, i) == SubSeq(s, 1, i - 1) \o SubSeq(s, i + 1, Len(s))

Running == pc = "run"

AppInit ==
  /\ app \in Variants
  /\ messages = <<>> /\ input = <<>> /\ loading = FALSE /\ requests = <<>>
  /\ uploadedFile = NoFile /\ uploadError = EmptyMessage
  /\ isDocumentUploaded = FALSE /\ fileInput = NoFile
  /\ chatHistory = <<>> /\ currentChatId = NoChat
  /\ sessionMap = NoSessionMap /\ clock = 0
  /\ pc = IF app = "multi" THEN "mount" ELSE "run"
  /\ text = Undefined /\ variant = "none" /\ result = Undefined
  /\ ValidatorIdle

\* onChange of the text box, which is disabled while loading.
SetInput(s) ==
  /\ Running /\ ~loading
  /\ s # input
  /\ input' = s
  /\ UNCHANGED <<app, messages, loading, requests, uploadVars, chatVars,
                 formatVars, validateVars>>

(***************************************************************************)
(* The simple variant (src/unnamed/part_000).                              *)
(***************************************************************************)
SimpleSendMessage ==
  /\ app = "simple" /\ Running /\ ~loading
  /\ IF Trim(input) = <<>>
       THEN UNCHANGED <<messages, input, loading, requests>>
       ELSE /\ Len(messages) + 2 <= MaxMessages
            /\ messages' = Append(messages, Msg("user", Str(input)))
            /\ input' = <<>>
            /\ loading' = TRUE
            /\ requests' = Append(requests,
                 Request("query", NoChat, <<>>, NoSession, input, NoFile))
  /\ UNCHANGED <<app, uploadVars, chatVars, formatVars, validateVars>>

SimpleSettle(i, o) ==
  /\ app = "simple"
  /\ requests[i].kind = "query"
  /\ messages' = Append(messages,
       Msg("ai", IF o.kind = "ok" THEN o.answer ELSE SimpleErrorText))
  /\ loading' = FALSE
  /\ requests' = Without(requests, i)
  /\ UNCHANGED <<app, input, uploadVars, chatVars, formatVars, validateVars>>

\* The Clear History button is enabled whatever loading is.
SimpleClearChat ==
  /\ app = "simple" /\ Running
  /\ messages' = <<>>
  /\ UNCHANGED <<app, input, loading, requests, uploadVars, chatVars,
                 formatVars, validateVars>>

(***************************************************************************)
(* The upload variant (src/unnamed/part_001).                              *)
(***************************************************************************)
\* handleFileUpload that goes on after a rejection.
handleFileUploadNoReturn(f) ==
  /\ app = "upload" /\ Running /\ ~loading
  /\ uploadError' =
       IF f # NoFile /\ validateFile(f) # NullMessage
         THEN validateFile(f) ELSE EmptyMessage
  /\ uploadedFile' = f
  /\ fileInput' = f
  /\ UNCHANGED <<app, messages, input, loading, requests, isDocumentUploaded,
                 chatVars, formatVars, validateVars>>

\* handleFileUpload that does not clear the previous error and file first.
handleFileUploadNoClear(f) ==
  /\ app = "upload" /\ Running /\ ~loading
  /\ IF f = NoFile
       THEN UNCHANGED <<uploadError, uploadedFile>> /\ fileInput' = NoFile
       ELSE IF validateFile(f) # NullMessage
         THEN /\ uploadError' = validateFile(f)
              /\ fileInput' = NoFile
              /\ UNCHANGED uploadedFile
         ELSE /\ uploadedFile' = f
              /\ fileInput' = f
              /\ UNCHANGED uploadError
  /\ UNCHANGED <<app, messages, input, loading, requests, isDocumentUploaded,
                 chatVars, formatVars, validateVars>>

\* onChange of the file picker, which opens from a button that is disabled
\* while loading; f is event.target.files[0], NoFile when there is none.
handleFileUpload(f) ==
  /\ app = "upload" /\ Running /\ ~loading
  /\ IF f = NoFile
       THEN /\ uploadError' = EmptyMessage
            /\ uploadedFile' = NoFile
            /\ fileInput' = NoFile
       ELSE IF validateFile(f) # NullMessage
         THEN /\ uploadError' = validateFile(f)
              /\ uploadedFile' = NoFile
              /\ fileInput' = NoFile
         ELSE /\ uploadError' = EmptyMessage
              /\ uploadedFile' = f
              /\ fileInput' = f
  /\ UNCHANGED <<app, messages, input, loading, requests, isDocumentUploaded,
                 chatVars, formatVars, validateVars>>

\* The remove button, shown with the selected file and disabled while
\* loading.
removeFile ==
  /\ app = "upload" /\ Running /\ ~loading
  /\ uploadedFile # NoFile
  /\ uploadedFile' = NoFile
  /\ uploadError' = EmptyMessage
  /\ fileInput' = NoFile
  /\ UNCHANGED <<app, messages, input, loading, requests, isDocumentUploaded,
                 chatVars, formatVars, validateVars>>

\* The Upload button, disabled while loading, up to the first await.
uploadDocument ==
  /\ app = "upload" /\ Running /\ ~loading
  /\ IF uploadedFile = NoFile
       THEN UNCHANGED <<messages, loading, requests>>
       ELSE /\ Len(messages) + 2 <= MaxMessages
            /\ loading' = TRUE
            /\ messages' = Append(messages, UploadingMsg(uploadedFile))
            /\ requests' = Append(requests,
                 Request("upload", NoChat, <<>>, NoSession, <<>>, uploadedFile))
  /\ UNCHANGED <<app, input, uploadVars, chatVars, formatVars, validateVars>>

\* The rest of uploadDocument without removeFile() in its finally.
UploadSettleKeepsFile(i, o) ==
  /\ app = "upload"
  /\ requests[i].kind = "upload"
  /\ messages' = Append(messages,
       Msg("ai", IF o = "ok" THEN UploadedText(requests[i].file)
                 ELSE UploadErrorText(o)))
  /\ isDocumentUploaded' = (isDocumentUploaded \/ o = "ok")
  /\ loading' = FALSE
  /\ requests' = Without(requests, i)
  /\ UNCHANGED <<app, input, uploadedFile, uploadError, fileInput, chatVars,
                 formatVars, validateVars>>

\* The rest of uploadDocument: try, catch and finally.
UploadSettle(i, o) ==
  /\ app = "upload"
  /\ requests[i].kind = "upload"
  /\ messages' = Append(messages,
       Msg("ai", IF o = "ok" THEN UploadedText(requests[i].file)
                 ELSE UploadErrorText(o)))
  /\ isDocumentUploaded' = (isDocumentUploaded \/ o = "ok")
  /\ loading' = FALSE
  /\ uploadedFile' = NoFile
  /\ uploadError' = EmptyMessage
  /\ fileInput' = NoFile
  /\ requests' = Without(requests, i)
  /\ UNCHANGED <<app, input, chatVars, formatVars, validateVars>>

\* The Ask button and the Enter key, up to the first await.
UploadSendMessage ==
  /\ app = "upload" /\ Running /\ ~loading
  /\ IF Trim(input) = <<>>
       THEN UNCHANGED <<messages, input, loading, requests>>
       ELSE /\ Len(messages) + 2 <= MaxMessages
            /\ messages' = Append(messages, Msg("user", Str(Trim(input))))
            /\ input' = <<>>
            /\ loading' = TRUE
            /\ requests' = Append(requests,
                 Request("query", NoChat, <<>>, NoSession, Trim(input), NoFile))
  /\ UNCHANGED <<app, uploadVars, chatVars, formatVars, validateVars>>

UploadQuerySettle(i, o) ==
  /\ app = "upload"
  /\ requests[i].kind = "query"
  /\ messages' = Append(messages,
       Msg("ai", IF o.kind = "ok" THEN OrElse(o.answer, NoAnswerText)
                 ELSE QueryErrorText(o.kind)))
  /\ loading' = FALSE
  /\ requests' = Without(requests, i)
  /\ UNCHANGED <<app, input, uploadVars, chatVars, formatVars, validateVars>>

\* The Clear Chat button, disabled while loading.
clearChat ==
  /\ app = "upload" /\ Running /\ ~loading
  /\ messages' = <<>>
  /\ input' = <<>>
  /\ isDocumentUploaded' = FALSE
  /\ uploadedFile' = NoFile
  /\ uploadError' = EmptyMessage
  /\ fileInput' = NoFile
  /\ UNCHANGED <<app, loading, requests, chatVars, formatVars, validateVars>>

(***************************************************************************)
(* The multi-chat variant (src/src/App.jsx).                               *)
(***************************************************************************)
TitleLimit == 30

NewChatTitle == <<"N", "e", "w", " ", "C", "h", "a", "t">>

NewChat(id) == [id |-> id, title |-> NewChatTitle, messages |-> <<>>]

ChatIds(history) == {history[k].id : k \in 1..Len(history)}

\* chatHistory.find(c => c.id === id), for an id that is there
Find(history, id) ==
  history[Min({k \in 1..Len(history) : history[k].id = id})]

\* sessionMap[id]
SessionOf(map, id) == IF id \in DOMAIN map THEN map[id] ELSE "undefined"

TruthySession(s) == s \notin {NoSession, "undefined", ""}

\* { ...prev, [id]: s }
WithSession(map, id, s) ==
  [c \in DOMAIN map \cup {id} |-> IF c = id THEN s ELSE map[c]]

\* The title with >= for >.
TitleOfAtLimit(s) ==
  IF Len(s) >= TitleLimit
    THEN SubSeq(s, 1, TitleLimit) \o <<".", ".", ".">> ELSE s

\* input.length > 30 ? input.substring(0, 30) + "..." : input
TitleOf(s) ==
  IF Len(s) > TitleLimit
    THEN SubSeq(s, 1, TitleLimit) \o <<".", ".", ".">> ELSE s

\* updateCurrentChat({ messages }) of a handler whose currentChatId is id
WithMessages(history, id, msgs) ==
  [k \in 1..Len(history) |->
     IF history[k].id = id
       THEN [history[k] EXCEPT !.messages = msgs] ELSE history[k]]

\* updateCurrentChat({ messages, title })
WithMessagesAndTitle(history, id, msgs, title) ==
  [k \in 1..Len(history) |->
     IF history[k].id = id
       THEN [history[k] EXCEPT !.messages = msgs, !.title = title]
       ELSE history[k]]

\* The state updates of startNewChat, queued after chatHistory became
\* history; Date.now() has moved on since the last chat was made.
NewChatUpdates(history) ==
  /\ clock < MaxClock
  /\ clock' = clock + 1
  /\ chatHistory' = <<NewChat(clock + 1)>> \o history
  /\ currentChatId' = clock + 1
  /\ messages' = <<>>
  /\ input' = <<>>
  /\ sessionMap' = WithSession(sessionMap, clock + 1, NoSession)

\* The effect that runs once after the first render.
MountEffect ==
  /\ app = "multi" /\ pc = "mount"
  /\ pc' = "run"
  /\ IF chatHistory = <<>>
       THEN NewChatUpdates(chatHistory)
       ELSE UNCHANGED <<messages, input, chatVars>>
  /\ UNCHANGED <<app, loading, requests, uploadVars, text, variant, result,
                 validateVars>>

\* The New chat button.
startNewChat ==
  /\ app = "multi" /\ Running
  /\ NewChatUpdates(chatHistory)
  /\ UNCHANGED <<app, loading, requests, uploadVars, formatVars, validateVars>>

\* A click on a chat of the sidebar.
switchChat(id) ==
  /\ app = "multi" /\ Running
  /\ IF id \in ChatIds(chatHistory)
       THEN /\ currentChatId' = id
            /\ messages' = Find(chatHistory, id).messages
       ELSE UNCHANGED <<currentChatId, messages>>
  /\ UNCHANGED <<app, input, loading, requests, chatHistory, sessionMap, clock,
                 uploadVars, formatVars, validateVars>>

\* deleteChat that only removes the chat.
deleteChatOnly(id) ==
  /\ app = "multi" /\ Running
  /\ id \in ChatIds(chatHistory)
  /\ chatHistory' = SelectSeq(chatHistory, LAMBDA c : c.id # id)
  /\ UNCHANGED <<app, messages, input, loading, requests, currentChatId,
                 sessionMap, clock, uploadVars, formatVars, validateVars>>

\* The delete button of a chat of the sidebar.
deleteChat(id) ==
  LET remaining == SelectSeq(chatHistory, LAMBDA c : c.id # id)
  IN /\ app = "multi" /\ Running
     /\ id \in ChatIds(chatHistory)
     /\ IF currentChatId # id
          THEN /\ chatHistory' = remaining
               /\ UNCHANGED <<messages, input, currentChatId, sessionMap, clock>>
          ELSE IF remaining # <<>>
            THEN /\ chatHistory' = remaining
                 /\ currentChatId' = remaining[1].id
                 /\ messages' = remaining[1].messages
                 /\ UNCHANGED <<input, sessionMap, clock>>
            ELSE NewChatUpdates(remaining)
     /\ UNCHANGED <<app, loading, requests, uploadVars, formatVars, validateVars>>

\* The clear button, disabled while loading and while nothing is shown.
clearCurrentChat ==
  /\ app = "multi" /\ Running /\ ~loading
  /\ messages # <<>>
  /\ messages' = <<>>
  /\ input' = <<>>
  /\ chatHistory' = WithMessagesAndTitle(chatHistory, currentChatId, <<>>,
                                         NewChatTitle)
  /\ UNCHANGED <<app, loading, requests, currentChatId, sessionMap, clock,
                 uploadVars, formatVars, validateVars>>

\* sendMessage without setLoading(true).
MultiSendMessageNotLoading ==
  LET newMessages == Append(messages, Msg("user", Str(Trim(input))))
  IN /\ app = "multi" /\ Running /\ ~loading
     /\ IF Trim(input) = <<>>
          THEN UNCHANGED <<messages, input, loading, requests, chatHistory,
                           clock>>
          ELSE /\ Len(messages) + 2 <= MaxMessages
               /\ clock < MaxClock
               /\ clock' = clock + 1
               /\ messages' = newMessages
               /\ chatHistory' =
                    IF /\ currentChatId \in ChatIds(chatHistory)
                       /\ Find(chatHistory, currentChatId).messages = <<>>
                      THEN WithMessagesAndTitle(chatHistory, currentChatId,
                                                newMessages, TitleOf(input))
                      ELSE WithMessages(chatHistory, currentChatId, newMessages)
               /\ input' = <<>>
               /\ loading' = loading
               /\ requests' = Append(requests,
                    Request("query", currentChatId, newMessages,
                            SessionOf(sessionMap, currentChatId),
                            Trim(input), NoFile))
     /\ UNCHANGED <<app, currentChatId, sessionMap, uploadVars, formatVars,
                    validateVars>>

\* The send button and the Enter key, up to the first await.
MultiSendMessage ==
  LET newMessages == Append(messages, Msg("user", Str(Trim(input))))
  IN /\ app = "multi" /\ Running /\ ~loading
     /\ IF Trim(input) = <<>>
          THEN UNCHANGED <<messages, input, loading, requests, chatHistory,
                           clock>>
          ELSE /\ Len(messages) + 2 <= MaxMessages
               /\ clock < MaxClock
               /\ clock' = clock + 1
               /\ messages' = newMessages
               /\ chatHistory' =
                    IF /\ currentChatId \in ChatIds(chatHistory)
                       /\ Find(chatHistory, currentChatId).messages = <<>>
                      THEN WithMessagesAndTitle(chatHistory, currentChatId,
                                                newMessages, TitleOf(input))
                      ELSE WithMessages(chatHistory, currentChatId, newMessages)
               /\ input' = <<>>
               /\ loading' = TRUE
               /\ requests' = Append(requests,
                    Request("query", currentChatId, newMessages,
                            SessionOf(sessionMap, currentChatId),
                            Trim(input), NoFile))
     /\ UNCHANGED <<app, currentChatId, sessionMap, uploadVars, formatVars,
                    validateVars>>

\* The "session-id" header of a request.
SessionHeader(r) == IF TruthySession(r.session) THEN r.session ELSE ""

\* The rest of sendMessage storing every sessionId it is given.
MultiSettleAnySession(i, o) ==
  LET r == requests[i]
      finalMessages ==
        Append(r.newMessages,
               Msg("ai", IF o.kind = "ok" THEN OrElse(o.answer, NoAnswerText)
                         ELSE QueryErrorText(o.kind)))
  IN /\ app = "multi"
     /\ r.kind = "query"
     /\ sessionMap' =
          IF o.kind = "ok" /\ o.sessionId # ""
            THEN WithSession(sessionMap, r.chat, o.sessionId) ELSE sessionMap
     /\ messages' = finalMessages
     /\ chatHistory' = WithMessages(chatHistory, r.chat, finalMessages)
     /\ loading' = FALSE
     /\ requests' = Without(requests, i)
     /\ UNCHANGED <<app, input, currentChatId, clock, uploadVars, formatVars,
                    validateVars>>

\* The rest of sendMessage: try, catch and finally, with the messages, the
\* chat id and the session map of the render the handler started in.
MultiSettle(i, o) ==
  LET r == requests[i]
      finalMessages ==
        Append(r.newMessages,
               Msg("ai", IF o.kind = "ok" THEN OrElse(o.answer, NoAnswerText)
                         ELSE QueryErrorText(o.kind)))
  IN /\ app = "multi"
     /\ r.kind = "query"
     /\ sessionMap' =
          IF o.kind = "ok" /\ ~TruthySession(r.session) /\ o.sessionId # ""
            THEN WithSession(sessionMap, r.chat, o.sessionId) ELSE sessionMap
     /\ messages' = finalMessages
     /\ chatHistory' = WithMessages(chatHistory, r.chat, finalMessages)
     /\ loading' = FALSE
     /\ requests' = Without(requests, i)
     /\ UNCHANGED <<app, input, currentChatId, clock, uploadVars, formatVars,
                    validateVars>>

(***************************************************************************)
(* What the user and the backend can do to a running App.                  *)
(***************************************************************************)
AppNext ==
  \/ \E s \in Inputs \cup {<<>>} : SetInput(s)
  \/ SimpleSendMessage
  \/ \E i \in 1..Len(requests), o \in QueryOutcomes : SimpleSettle(i, o)
  \/ SimpleClearChat
  \/ \E f \in AppFiles \cup {NoFile} : handleFileUpload(f)
  \/ removeFile
  \/ uploadDocument
  \/ \E i \in 1..Len(requests), o \in UploadOutcomes : UploadSettle(i, o)
  \/ UploadSendMessage
  \/ \E i \in 1..Len(requests), o \in QueryOutcomes : UploadQuerySettle(i, o)
  \/ clearChat
  \/ MountEffect
  \/ startNewChat
  \/ \E id \in 1..clock : switchChat(id)
  \/ \E id \in 1..clock : deleteChat(id)
  \/ clearCurrentChat
  \/ MultiSendMessage
  \/ \E i \in 1..Len(requests), o \in QueryOutcomes : MultiSettle(i, o)

AppSpec == AppInit /\ [][AppNext]_vars

\* A request in flight comes to its end: fetch and axios.get settle, with a
\* response or with an error.
Settle ==
  \E i \in 1..Len(requests) :
    \/ \E o \in QueryOutcomes :
         SimpleSettle(i, o) \/ UploadQuerySettle(i, o) \/ MultiSettle(i, o)
    \/ \E o \in UploadOutcomes : UploadSettle(i, o)

AppFairSpec == AppSpec /\ WF_vars(Settle)

(***************************************************************************)
(* How a message of the list is put on the page: the text of an ai message *)
(* as the HTML formatText makes of it, the text of any other message as a  *)
(* text node.                                                              *)
(***************************************************************************)
Html(content) == [as |-> "html", content |-> content]

TextNode(content) == [as |-> "text", content |-> content]

\* Every message as a text node.
DisplayAsText(v, msg) == TextNode(msg.text)

Display(v, msg) ==
  IF msg.sender = "ai" THEN Html(formatText(v, msg.text))
  ELSE TextNode(msg.text)

Shown == 1..Len(messages)

\* formatText changes this text.
HasMarkup(v, msgText) == formatText(v, msgText) # msgText

\* C11 as stated: every displayed message text, the user's as well as the
\* backend's, is put on the page as formatText returns it.
C11_EveryTextFormatted ==
  \A k \in Shown :
    Display(app, messages[k]) = Html(formatText(app, messages[k].text))

\* C11 amended: the text of every ai message (backend answer, error text or
\* upload result) is put on the page as formatText returns it; the text of a
\* user message is put on the page as it is, without formatText.
C11_OnlyAiTextFormatted ==
  \A k \in Shown :
    /\ messages[k].sender = "ai"
         => Display(app, messages[k]) = Html(formatText(app, messages[k].text))
    /\ messages[k].sender = "user"
         => Display(app, messages[k]) = TextNode(messages[k].text)
    /\ messages[k].sender \in {"ai", "user"}

\* A user message and an ai message are shown, both with markup.
C11_Witness ==
  \E j, k \in Shown :
    /\ messages[j].sender = "user" /\ HasMarkup(app, messages[j].text)
    /\ messages[k].sender = "ai" /\ HasMarkup(app, messages[k].text)

Uploads == {k \in 1..Len(requests) : requests[k].kind = "upload"}

\* C12: in the upload variant a selected file is one validateFile accepts,
\* and so is the file of every upload in flight.
C12_OnlyValidatedFiles ==
  app = "upload" =>
    /\ uploadedFile # NoFile => validateFile(uploadedFile) = NullMessage
    /\ \A k \in Uploads :
         /\ requests[k].file # NoFile
         /\ validateFile(requests[k].file) = NullMessage

\* A second upload is in flight, of a file of exactly the maximum size.
C12_Witness ==
  /\ app = "upload" /\ Uploads # {}
  /\ Len(messages) = 3
  /\ requests[1].file.size = MAX_FILE_SIZE

\* C16: selecting a file that validateFile rejects leaves the rejection as
\* the error, the picker reset and no file selected; selecting one it
\* accepts leaves that file selected and no error, whatever error and file
\* there were before; and a non-empty uploadError always goes with a null
\* uploadedFile.
C16_SelectingAFile ==
  /\ [](uploadError # EmptyMessage => uploadedFile = NoFile)
  /\ [][\A f \in AppFiles :
          handleFileUpload(f) =>
            IF validateFile(f) # NullMessage
              THEN /\ uploadError' = validateFile(f)
                   /\ fileInput' = NoFile
                   /\ uploadedFile' = NoFile
              ELSE /\ uploadedFile' = f
                   /\ uploadError' = EmptyMessage]_vars

\* A rejection is displayed, the picker is reset and no file is selected.
C16_Witness ==
  /\ uploadError # EmptyMessage /\ uploadError.template = "size"
  /\ fileInput = NoFile /\ uploadedFile = NoFile

\* C17: in every variant at most one request is in flight, and loading is
\* true exactly while one is.
C17_OneRequestAtATime ==
  /\ Len(requests) <= 1
  /\ loading <=> requests # <<>>

\* A request is in flight while another chat is shown.
C17_Witness ==
  /\ loading /\ Len(requests) = 1
  /\ app = "multi" /\ requests[1].chat # currentChatId

\* C18: in the multi-chat variant a request carries the session id its chat
\* has, and none when it has none; a chat gets its session id only when a
\* request sent from it settles; and once it has one it keeps it.
C18_SessionPerChat ==
  [][app = "multi" =>
       /\ sessionMap' # sessionMap =>
            /\ \A c \in DOMAIN sessionMap :
                 TruthySession(sessionMap[c])
                   => c \in DOMAIN sessionMap' /\ sessionMap'[c] = sessionMap[c]
            /\ \A c \in DOMAIN sessionMap' :
                 /\ TruthySession(sessionMap'[c])
                 /\ ~TruthySession(SessionOf(sessionMap, c))
                 => \E k \in 1..Len(requests) :
                      requests[k].chat = c /\ requests' = Without(requests, k)
       /\ Len(requests') > Len(requests) =>
            LET r == requests'[Len(requests')]
            IN /\ r.chat = currentChatId
               /\ SessionHeader(r) =
                    IF currentChatId \in DOMAIN sessionMap
                         /\ sessionMap[currentChatId] \in {"s1", "s2"}
                      THEN sessionMap[currentChatId] ELSE ""]_vars

\* The second request of a chat is in flight with the chat's session id
\* while another chat is shown.
C18_Witness ==
  /\ app = "multi" /\ Len(requests) = 1
  /\ SessionHeader(requests[1]) = "s1"
  /\ requests[1].chat # currentChatId
  /\ sessionMap[requests[1].chat] = "s1"

\* The upload that settles in this step, if one does.
SettlingUploads == {k \in Uploads : requests' = Without(requests, k)}

\* C19: an upload starts only with a selected file, and appends one user
\* message for it; when it settles, with whatever outcome, one ai message is
\* appended after that user message, no file is selected, no error is shown
\* and loading is false; isDocumentUploaded becomes true only when an upload
\* settles with success, and clearChat makes it false.
C19_UploadSettles ==
  [][app = "upload" =>
       /\ Len(requests') > Len(requests)
            /\ requests'[Len(requests')].kind = "upload"
            => /\ uploadedFile # NoFile
               /\ requests'[Len(requests')].file = uploadedFile
               /\ messages' = Append(messages, UploadingMsg(uploadedFile))
       /\ \A k \in SettlingUploads :
            /\ messages # <<>>
            /\ messages[Len(messages)] = UploadingMsg(requests[k].file)
            /\ Len(messages') = Len(messages) + 1
            /\ SubSeq(messages', 1, Len(messages)) = messages
            /\ messages'[Len(messages')].sender = "ai"
            /\ uploadedFile' = NoFile
            /\ uploadError' = EmptyMessage
            /\ loading' = FALSE
       /\ isDocumentUploaded' /\ ~isDocumentUploaded
            => \E k \in SettlingUploads :
                 messages'[Len(messages')].text = UploadedText(requests[k].file)
       /\ clearChat => ~isDocumentUploaded']_vars

\* An upload has failed on a response without details: its two messages
\* are there, nothing is selected and no document counts as uploaded.
C19_Witness ==
  /\ app = "upload" /\ ~loading /\ requests = <<>>
  /\ Len(messages) = 2
  /\ messages[1].file # NoAttachment
  /\ messages[2] = Msg("ai", UploadErrorText("nodetails"))
  /\ uploadedFile = NoFile /\ uploadError = EmptyMessage
  /\ ~isDocumentUploaded

\* The title the claim gives a chat for its first message.
FirstMessageTitle(s) ==
  IF Len(s) <= 30 THEN s ELSE SubSeq(s, 1, 30) \o <<".", ".", ".">>

\* C20: in the multi-chat variant a send changes the title of the current
\* chat only, and only when that chat has no stored messages: to the input
\* when it has at most 30 characters, else to its first 30 characters and
\* "...", 33 characters at most; the arrival of a reply changes no title.
C20_TitleFromFirstMessage ==
  [][app = "multi" /\ Len(requests') # Len(requests) =>
       /\ Len(chatHistory') = Len(chatHistory)
       /\ \A k \in 1..Len(chatHistory) :
            chatHistory'[k].title =
              IF /\ Len(requests') > Len(requests)
                 /\ chatHistory[k].id = currentChatId
                 /\ chatHistory[k].messages = <<>>
                THEN FirstMessageTitle(input)
                ELSE chatHistory[k].title
       /\ \A k \in 1..Len(chatHistory') : Len(chatHistory'[k].title) <= 33]_vars

\* A chat has a shortened title of 33 characters and a second exchange.
C20_Witness ==
  /\ app = "multi"
  /\ \E k \in 1..Len(chatHistory) :
       /\ Len(chatHistory[k].title) = 33
       /\ Len(chatHistory[k].messages) = 4

\* The mount effect has run in the multi-chat variant.
Initialised == app = "multi" /\ Running

\* The request that settles in this step, if one does.
Settling == {k \in 1..Len(requests) : requests' = Without(requests, k)}

\* A request starts in this step.
Sending == Len(requests') > Len(requests)

\* C21: in the multi-chat variant, once initialised, the messages shown are
\* the stored messages of the chat whose id is currentChatId.
C21_ShownIsCurrentChat ==
  Initialised =>
    /\ currentChatId \in ChatIds(chatHistory)
    /\ messages = Find(chatHistory, currentChatId).messages

\* C22: in the multi-chat variant a send stores the user's message in the
\* current chat, after what that chat has stored, and changes no other
\* chat's stored messages; a reply is stored after them in the chat its
\* request was sent from, and changes no other chat's stored messages.
C22_ChatsIsolated ==
  [][Initialised =>
       /\ Sending =>
            /\ Len(chatHistory') = Len(chatHistory)
            /\ \A k \in 1..Len(chatHistory) :
                 chatHistory'[k].messages =
                   IF chatHistory[k].id = currentChatId
                     THEN Append(chatHistory[k].messages,
                                 Msg("user", Str(Trim(input))))
                     ELSE chatHistory[k].messages
       /\ \A r \in Settling :
            /\ Len(chatHistory') = Len(chatHistory)
            /\ \A k \in 1..Len(chatHistory) :
                 IF chatHistory[k].id = requests[r].chat
                   THEN /\ Len(chatHistory'[k].messages)
                             = Len(chatHistory[k].messages) + 1
                        /\ SubSeq(chatHistory'[k].messages, 1,
                                  Len(chatHistory[k].messages))
                             = chatHistory[k].messages
                        /\ chatHistory'[k].messages[
                             Len(chatHistory'[k].messages)].sender = "ai"
                   ELSE chatHistory'[k].messages = chatHistory[k].messages]_vars

\* C23: in every variant the list of messages starts with a user message
\* and every ai message comes right after a user message.
C23_ReplyAfterQuestion ==
  /\ messages # <<>> => messages[1].sender = "user"
  /\ \A k \in Shown :
       messages[k].sender = "ai"
         => k > 1 /\ messages[k - 1].sender = "user"

\* C25: in the multi-chat variant, once initialised, there is a chat and
\* currentChatId is the id of one; when the current chat is deleted, the
\* first of the other chats becomes current or, when there is no other, a
\* new chat that is then the only one; when another chat is deleted, or the
\* user switches to an id that no chat has, the current chat stays as it is.
C25_CurrentChatExists ==
  /\ [](Initialised =>
          chatHistory # <<>> /\ currentChatId \in ChatIds(chatHistory))
  /\ [][Initialised =>
          /\ Len(chatHistory') < Len(chatHistory)
               \/ currentChatId' # currentChatId
               => \A id \in ChatIds(chatHistory) \ ChatIds(chatHistory') :
                    IF id # currentChatId
                      THEN currentChatId' = currentChatId
                      ELSE /\ currentChatId' = chatHistory'[1].id
                           /\ ChatIds(chatHistory) = {id} =>
                                /\ currentChatId' \notin ChatIds(chatHistory)
                                /\ chatHistory' = <<NewChat(currentChatId')>>
                           /\ ChatIds(chatHistory) # {id} =>
                                currentChatId' \in ChatIds(chatHistory)
          /\ currentChatId' # currentChatId
               => \A id \in (1..clock) \ ChatIds(chatHistory) :
                    ~switchChat(id)]_vars

\* The first chat has been deleted and another chat is the only one.
C25_Witness ==
  /\ Initialised
  /\ Len(chatHistory) = 1 /\ currentChatId = chatHistory[1].id
  /\ 1 \notin ChatIds(chatHistory)

\* One of the three sendMessage handlers runs.
SendMessageStep == SimpleSendMessage \/ UploadSendMessage \/ MultiSendMessage

\* A query settles with outcome o.
QuerySettles(o) ==
  \E i \in 1..Len(requests) :
    SimpleSettle(i, o) \/ UploadQuerySettle(i, o) \/ MultiSettle(i, o)

ErrorGlyphs == {"U+274C", "U+26A0"}

\* C24: in every variant sendMessage with blank input changes nothing and
\* starts no request; when the request of a send settles, loading becomes
\* false and the list ends with the user's message of that request followed
\* by one ai message, which is the backend's answer on success and an error
\* text otherwise; and under fair settling a loading App stops loading.
C24_SendSettles ==
  /\ [][/\ SendMessageStep /\ Trim(input) = <<>> => UNCHANGED vars
        /\ Sending /\ requests'[Len(requests')].kind = "query"
             => Trim(input) # <<>>
        /\ \A r \in Settling :
             requests[r].kind = "query" =>
               /\ loading' = FALSE
               /\ Len(messages') >= 2
               /\ messages'[Len(messages')].sender = "ai"
               /\ messages'[Len(messages') - 1]
                    = Msg("user", Str(requests[r].question))
        /\ \A o \in QueryOutcomes :
             QuerySettles(o) =>
               LET reply == messages'[Len(messages')].text
               IN /\ o.kind = "ok" /\ Truthy(o.answer) => reply = o.answer
                  /\ o.kind # "ok" =>
                       /\ reply.kind = "string"
                       /\ reply.chars[1] \in ErrorGlyphs]_vars
  /\ loading ~> ~loading

====
